---- MODULE Spec2Model ----
(***************************************************************************)
(* A model of wargo's release selection: choose_version_by_key             *)
(* (wargo/src/build/choose_version.rs) and its caller                      *)
(* download_matching_release (wargo/src/build/mod.rs).                     *)
(*                                                                         *)
(* SpecChoose is a direct call of choose_version_by_key on every main      *)
(* version and candidate sequence within the bounds; Spec is a run of      *)
(* download_matching_release, step by step, each fallible step succeeding  *)
(* or failing.  SpecSemver is the direct call over versions with          *)
(* pre-releases.  SpecBuild is a run of build_project_delegate with either *)
(* js path delegate.  SpecLock is wasm_rgame_version calling find_version  *)
(* (cargo-lock/src/lib.rs) on a Cargo.lock text.                           *)
(*                                                                         *)
(* Option<T> is a sequence of length at most one: None is <<>> and Some(x) *)
(* is <<x>>.  A string is a sequence of one-character strings.  A call     *)
(* that can panic yields an outcome record [kind, value] with kind         *)
(* "return" or "panic".  sort_unstable_by leaves the order of equal        *)
(* elements open, so a call has a set of outcomes.                         *)
(***************************************************************************)
EXTENDS Integers, Sequences, FiniteSets

\* Bounds of the model.
MaxMajor == 1
MaxLen == 3
MaxReleases == 2
MaxPermLen == 3

VARIABLES pc, main_version, items, chosen, log, tmp_dirs, result,
          js_path_arg, disk, js, cargo_lock_contents, lock_version

\* The state of build_project: the --js-path argument, the directories on
\* disk and the (js_path, should_cleanup) pair the delegate returned.
build_vars == <<js_path_arg, disk, js>>

\* The state of find_version: the lines of Cargo.lock and the version found.
lock_vars == <<cargo_lock_contents, lock_version>>

vars ==
    <<pc, main_version, items, chosen, log, tmp_dirs, result,
      js_path_arg, disk, js, cargo_lock_contents, lock_version>>

----------------------------------------------------------------------------
\* Option<T>

None == <<>>

Some(x) == <<x>>

IsSome(o) == Len(o) = 1

Unwrap(o) == o[1]

Range(s) == {s[i] : i \in 1..Len(s)}

\* No build is in progress.
NoBuild == js_path_arg = None /\ disk = {} /\ js = None

\* No Cargo.lock is being read.
NoLock == cargo_lock_contents = <<>> /\ lock_version = None

----------------------------------------------------------------------------
\* semver::Version and its ordering

\* pre = 0 is a release; pre = k > 0 is the k-th pre-release identifier in
\* precedence order ("a" < "b").
MkVersion(major, minor, patch, pre) ==
    [major |-> major, minor |-> minor, patch |-> patch, pre |-> pre]

CmpNat(a, b) == IF a < b THEN "Less" ELSE IF a > b THEN "Greater" ELSE "Equal"

\* A mutation: the pre-release is compared as a number, a release lowest.
CmpPreNumeric(a, b) == CmpNat(a, b)

\* A version without a pre-release is greater than one with a pre-release.
CmpPre(a, b) ==
    IF a = b THEN "Equal"
    ELSE IF a = 0 THEN "Greater"
    ELSE IF b = 0 THEN "Less"
    ELSE CmpNat(a, b)

\* Version::cmp: major, then minor, then patch, then pre-release.
VersionCmp(a, b) ==
    IF CmpNat(a.major, b.major) # "Equal" THEN CmpNat(a.major, b.major)
    ELSE IF CmpNat(a.minor, b.minor) # "Equal" THEN CmpNat(a.minor, b.minor)
    ELSE IF CmpNat(a.patch, b.patch) # "Equal" THEN CmpNat(a.patch, b.patch)
    ELSE CmpPre(a.pre, b.pre)

VersionLE(a, b) == VersionCmp(a, b) # "Greater"

----------------------------------------------------------------------------
\* choose_version_by_key

Return(v) == [kind |-> "return", value |-> v]

Panic == [kind |-> "panic", value |-> None]

\* key_fn is a function from the items to the outcome of the caller's closure.
\* The map step: each item is paired with its derived version; a panic of the
\* closure unwinds the call.
KeyPanics(its, key_fn) == \E i \in 1..Len(its) : key_fn[its[i]].kind = "panic"

KeyedItems(its, key_fn) ==
    [i \in 1..Len(its) |-> <<its[i], key_fn[its[i]].value>>]

\* A mutation of the filter: the bound is not applied.
VersionFilterNoBound(version, main) == IsSome(version)

\* A mutation of the filter: strictly below the main version.
VersionFilterStrict(version, main) ==
    IF IsSome(version) THEN VersionCmp(Unwrap(version), main) = "Less" ELSE FALSE

\* A mutation of the filter: an underivable candidate is retained.
VersionFilterKeepsNone(version, main) ==
    IF IsSome(version) THEN VersionLE(Unwrap(version), main) ELSE TRUE

\* The filter closure.
VersionFilter(version, main) ==
    IF IsSome(version) THEN VersionLE(Unwrap(version), main) ELSE FALSE

\* map, filter and collect; the second map's expect panics on None.
FilterPairs(pairs, main) ==
    SelectSeq(pairs, LAMBDA p : VersionFilter(p[2], main))

ExpectPanics(pairs) == \E i \in 1..Len(pairs) : ~IsSome(pairs[i][2])

ExpectVersions(pairs) ==
    [i \in 1..Len(pairs) |-> <<pairs[i][1], Unwrap(pairs[i][2])>>]

\* A mutation of the comparator: least version first.
SortCmpAscending(a, b) == VersionCmp(a[2], b[2])

\* The comparator given to sort_unstable_by: greatest version first.
SortCmp(a, b) == VersionCmp(b[2], a[2])

\* The orders of a set of indices.
RECURSIVE OrdersOf(_)
OrdersOf(S) ==
    IF S = {} THEN {<<>>}
    ELSE UNION {{<<x>> \o p : p \in OrdersOf(S \ {x})} : x \in S}

IndexOrders(n) == OrdersOf(1..n)

IsSortedBy(s) ==
    \A i \in 1..(Len(s) - 1) : SortCmp(s[i], s[i + 1]) # "Greater"

\* A mutation: the slice is left in its input order.
sort_skipped(s) == {s}

\* slice::sort_unstable_by: the slice is reordered into an order the
\* comparator accepts; elements that compare equal may end in any order.
\* The set of orders the sort may leave.
sort_unstable_by(s) ==
    {t \in {[i \in 1..Len(s) |-> s[p[i]]] : p \in IndexOrders(Len(s))} :
        IsSortedBy(t)}

\* A mutation: the assertion is missing.
assert_nonempty_missing(its) == TRUE

\* assert!(!items.is_empty())
assert_nonempty(its) == its # <<>>

\* A mutation: when nothing is at or below the main version the latest
\* derivable version is returned.
choose_version_with_fallback(main, its, key_fn) ==
    IF ~assert_nonempty(its) \/ KeyPanics(its, key_fn) THEN {Panic}
    ELSE LET pairs == KeyedItems(its, key_fn)
             filtered == FilterPairs(pairs, main)
             derivable == SelectSeq(pairs, LAMBDA p : IsSome(p[2]))
             pool == IF filtered = <<>> THEN derivable ELSE filtered
         IN  IF pool = <<>> THEN {Return(None)}
             ELSE {Return(Some(t[1][1])) :
                      t \in sort_unstable_by(ExpectVersions(pool))}

\* The set of outcomes of choose_version_by_key(main_version, items, key_fn).
choose_version_by_key(main, its, key_fn) ==
    IF ~assert_nonempty(its) THEN {Panic}
    ELSE IF KeyPanics(its, key_fn) THEN {Panic}
    ELSE LET filtered == FilterPairs(KeyedItems(its, key_fn), main)
         IN  IF ExpectPanics(filtered) THEN {Panic}
             ELSE IF filtered = <<>> THEN {Return(None)}
             ELSE {Return(Some(t[1][1])) :
                      t \in sort_unstable_by(ExpectVersions(filtered))}

----------------------------------------------------------------------------
\* A direct call of choose_version_by_key, as the unit tests make it: the
\* items carry the version their key function derives.

Versions == [major : 0..MaxMajor, minor : 0..1, patch : 0..1, pre : {0}]

OptVersions == {None} \cup {Some(v) : v \in Versions}

\* Distinct items: item i of the call derives to keys[i].
ItemsOf(keys) == [i \in 1..Len(keys) |-> [id |-> i, key |-> keys[i]]]

KeySeqs == UNION {[1..n -> OptVersions] : n \in 0..MaxLen}

\* The key function of the call: |s| Version::parse(s).ok() in the tests.
TestKeyFn(its) == [it \in Range(its) |-> Return(it.key)]

InitChoose ==
    /\ pc = "call"
    /\ main_version \in Versions
    /\ items \in {ItemsOf(k) : k \in KeySeqs}
    /\ chosen = None
    /\ log = <<>>
    /\ tmp_dirs = {}
    /\ result = None
    /\ NoBuild
    /\ NoLock

CallChoose ==
    /\ pc = "call"
    /\ \E o \in choose_version_by_key(main_version, items, TestKeyFn(items)) :
          /\ chosen' = Some(o)
          /\ pc' = IF o.kind = "panic" THEN "panicked" ELSE "returned"
    /\ UNCHANGED <<main_version, items, log, tmp_dirs, result>>
    /\ UNCHANGED <<build_vars, lock_vars>>

NextChoose == CallChoose

SpecChoose == InitChoose /\ [][NextChoose]_vars

----------------------------------------------------------------------------
\* Strings, str::split and Version::parse

RECURSIVE Split(_, _)
\* s.split(sep): the pieces of s between the occurrences of the character sep.
Split(s, sep) ==
    IF \E i \in 1..Len(s) : s[i] = sep
    THEN LET i == CHOOSE k \in 1..Len(s) :
                     s[k] = sep /\ \A j \in 1..(k - 1) : s[j] # sep
         IN  <<SubSeq(s, 1, i - 1)>> \o Split(SubSeq(s, i + 1, Len(s)), sep)
    ELSE <<s>>

Digits == <<"0", "1", "2", "3", "4", "5", "6", "7", "8", "9">>

IsDigit(c) == \E d \in 1..10 : Digits[d] = c

DigitValue(c) == (CHOOSE d \in 1..10 : Digits[d] = c) - 1

RECURSIVE DecimalValue(_)
DecimalValue(s) ==
    IF s = <<>> THEN 0
    ELSE 10 * DecimalValue(SubSeq(s, 1, Len(s) - 1)) + DigitValue(s[Len(s)])

\* A numeric identifier: digits, without a leading zero.
IsNumeric(s) ==
    /\ s # <<>>
    /\ \A i \in 1..Len(s) : IsDigit(s[i])
    /\ Len(s) > 1 => s[1] # "0"

\* The pre-release identifiers of the model, in precedence order.
PreReleases == <<<<"a">>, <<"b">>>>

IsPreRelease(s) == \E k \in 1..Len(PreReleases) : PreReleases[k] = s

PreRank(s) == CHOOSE k \in 1..Len(PreReleases) : PreReleases[k] = s

\* Version::parse(s).ok(): major.minor.patch with an optional -pre.
VersionParse(s) ==
    LET parts == Split(s, "-")
        core == Split(parts[1], ".")
    IN  IF /\ Len(core) = 3
           /\ \A i \in 1..3 : IsNumeric(core[i])
           /\ Len(parts) <= 2
           /\ Len(parts) = 2 => IsPreRelease(parts[2])
        THEN Some(MkVersion(DecimalValue(core[1]), DecimalValue(core[2]),
                            DecimalValue(core[3]),
                            IF Len(parts) = 2 THEN PreRank(parts[2]) ELSE 0))
        ELSE None

----------------------------------------------------------------------------
\* download_matching_release

\* The closure download_matching_release gives as key_fn:
\* r.tag_name.split("v").nth(1).unwrap(), then Version::parse(..).ok().
TagKey(r) ==
    LET pieces == Split(r.tag_name, "v")
    IN  IF Len(pieces) < 2 THEN Panic
        ELSE Return(VersionParse(pieces[2]))

TagKeyFn(rs) == [r \in Range(rs) |-> TagKey(r)]

\* Tag names of the listed releases.
Tags ==
    { <<"v", "0", ".", "0", ".", "1">>,
      <<"v", "0", ".", "1", ".", "0">>,
      <<"v", "0", ".", "1", ".", "0", "-", "a">>,
      <<"v", "1", ".", "0", ".", "0">>,
      <<"0", ".", "1", ".", "0">>,
      <<"v", "x">> }

\* A release list: each release has its tag name and its own tarball url.
ReleasesOf(tags) ==
    [i \in 1..Len(tags) |-> [tag_name |-> tags[i], tarball_url |-> i]]

ReleaseLists ==
    {ReleasesOf(t) : t \in UNION {[1..n -> Tags] : n \in 0..MaxReleases}}

Ok == [kind |-> "ok", msg |-> ""]

Err(m) == [kind |-> "err", msg |-> m]

Panicked == [kind |-> "panic", msg |-> ""]

\* The function ends with outcome r; a TempDir still in scope is dropped,
\* which removes its directory.
Finish(r) ==
    /\ result' = Some(r)
    /\ pc' = "done"
    /\ tmp_dirs' = tmp_dirs \ {"unpack_tmp_dir"}

\* The environment of a run: the version in Cargo.lock and the releases
\* GitHub lists.
Init ==
    /\ pc = "wasm_rgame_version"
    /\ main_version \in Versions
    /\ items \in ReleaseLists
    /\ chosen = None
    /\ log = <<>>
    /\ tmp_dirs = {}
    /\ result = None
    /\ NoBuild
    /\ NoLock

\* wasm_rgame_version()?
WasmRgameVersion ==
    /\ pc = "wasm_rgame_version"
    /\ \/ pc' = "list_releases" /\ UNCHANGED <<tmp_dirs, result>>
       \/ \E m \in {"Cannot find / read Cargo.lock in project directory",
                    "Cannot find wasm-rgame package in the Cargo.lock file!"} :
             Finish(Err(m))
    /\ UNCHANGED <<main_version, items, chosen, log>>
    /\ UNCHANGED <<build_vars, lock_vars>>

\* A mutation: the check for an empty list is missing.
ListReleasesUnchecked ==
    /\ pc = "list_releases"
    /\ \/ Finish(Panicked)
       \/ pc' = "choose_release" /\ UNCHANGED <<tmp_dirs, result>>
    /\ UNCHANGED <<main_version, items, chosen, log>>
    /\ UNCHANGED <<build_vars, lock_vars>>

\* Core::new().unwrap(), core.run(repo_releases.list()).unwrap() and the
\* check for an empty list.
ListReleases ==
    /\ pc = "list_releases"
    /\ \/ Finish(Panicked)
       \/ /\ items = <<>>
          /\ Finish(Err("Found no releases for wasm-rgame-js!"))
       \/ /\ items # <<>>
          /\ pc' = "choose_release"
          /\ UNCHANGED <<tmp_dirs, result>>
    /\ UNCHANGED <<main_version, items, chosen, log>>
    /\ UNCHANGED <<build_vars, lock_vars>>

\* let chosen_release = choose_version_by_key(wasm_rgame_version, releases, ..)
ChooseRelease ==
    /\ pc = "choose_release"
    /\ \E o \in choose_version_by_key(main_version, items, TagKeyFn(items)) :
          /\ chosen' = Some(o)
          /\ IF o.kind = "panic"
             THEN Finish(Panicked)
             ELSE pc' = "check_chosen" /\ UNCHANGED <<tmp_dirs, result>>
    /\ UNCHANGED <<main_version, items, log>>
    /\ UNCHANGED <<build_vars, lock_vars>>

\* A mutation: the is_none check is missing, and the unwrap panics on None.
CheckChosenMissing ==
    /\ pc = "check_chosen"
    /\ IF Unwrap(chosen).value = None
       THEN Finish(Panicked)
       ELSE pc' = "download" /\ UNCHANGED <<tmp_dirs, result>>
    /\ UNCHANGED <<main_version, items, chosen, log>>
    /\ UNCHANGED <<build_vars, lock_vars>>

\* if chosen_release.is_none() { return Err(..) }; chosen_release.unwrap()
CheckChosen ==
    /\ pc = "check_chosen"
    /\ IF Unwrap(chosen).value = None
       THEN Finish(Err("Found no valid releases for wasm-rgame version!"))
       ELSE pc' = "download" /\ UNCHANGED <<tmp_dirs, result>>
    /\ UNCHANGED <<main_version, items, chosen, log>>
    /\ UNCHANGED <<build_vars, lock_vars>>

ChosenRelease == Unwrap(Unwrap(chosen).value)

\* reqwest::get(chosen_release.tarball_url.as_str())
DownloadTarball ==
    /\ pc = "download"
    /\ log' = Append(log, <<"download", ChosenRelease.tarball_url>>)
    /\ \/ pc' = "create_tmp_dir" /\ UNCHANGED <<tmp_dirs, result>>
       \/ Finish(Err("Could not download release tarball"))
    /\ UNCHANGED <<main_version, items, chosen>>
    /\ UNCHANGED <<build_vars, lock_vars>>

\* let unpack_tmp_dir = TempDir::new()
CreateUnpackTmpDir ==
    /\ pc = "create_tmp_dir"
    /\ \/ /\ tmp_dirs' = tmp_dirs \cup {"unpack_tmp_dir"}
          /\ log' = Append(log, <<"tempdir", "unpack_tmp_dir">>)
          /\ pc' = "unpack"
          /\ UNCHANGED result
       \/ /\ Finish(Err("Could not create a temporary directory"))
          /\ UNCHANGED log
    /\ UNCHANGED <<main_version, items, chosen>>
    /\ UNCHANGED <<build_vars, lock_vars>>

\* archive.unpack(unpack_tmp_dir.path())
UnpackArchive ==
    /\ pc = "unpack"
    /\ log' = Append(log, <<"unpack", "unpack_tmp_dir">>)
    /\ \/ pc' = "final_tmp_path" /\ UNCHANGED <<tmp_dirs, result>>
       \/ Finish(Err("Could not unpack archive into the temporary directory"))
    /\ UNCHANGED <<main_version, items, chosen>>
    /\ UNCHANGED <<build_vars, lock_vars>>

\* let final_tmp_path = TempDir::new()?.into_path()
FinalTmpPath ==
    /\ pc = "final_tmp_path"
    /\ \/ /\ tmp_dirs' = tmp_dirs \cup {"final_tmp_path"}
          /\ log' = Append(log, <<"tempdir", "final_tmp_path">>)
          /\ pc' = "read_unpacked"
          /\ UNCHANGED result
       \/ /\ Finish(Err("io error"))
          /\ UNCHANGED log
    /\ UNCHANGED <<main_version, items, chosen>>
    /\ UNCHANGED <<build_vars, lock_vars>>

\* fs::read_dir(unpack_tmp_dir.path()) .nth(0).expect(..).expect(..).path()
ReadUnpackedDir ==
    /\ pc = "read_unpacked"
    /\ \/ pc' = "copy_unpacked" /\ UNCHANGED <<tmp_dirs, result>>
       \/ Finish(Err("Failed to read temporary directory"))
       \/ Finish(Panicked)
    /\ UNCHANGED <<main_version, items, chosen, log>>
    /\ UNCHANGED <<build_vars, lock_vars>>

\* for_each_file_in_dir(&unpacked_dir_path, ..)?; Ok((final_tmp_path, ..))
CopyUnpacked ==
    /\ pc = "copy_unpacked"
    /\ log' = Append(log, <<"copy", "final_tmp_path">>)
    /\ \/ Finish(Ok)
       \/ Finish(Err("Failed to copy over unpacked data"))
    /\ UNCHANGED <<main_version, items, chosen>>
    /\ UNCHANGED <<build_vars, lock_vars>>

Next ==
    \/ WasmRgameVersion
    \/ ListReleases
    \/ ChooseRelease
    \/ CheckChosen
    \/ DownloadTarball
    \/ CreateUnpackTmpDir
    \/ UnpackArchive
    \/ FinalTmpPath
    \/ ReadUnpackedDir
    \/ CopyUnpacked

Spec == Init /\ [][Next]_vars

----------------------------------------------------------------------------
\* Properties of a direct call (SpecChoose)

\* The call has ended, by a return or by a panic.
CallEnded == pc \in {"returned", "panicked"}

\* The call returned Some(item).
ReturnedSome ==
    /\ pc = "returned"
    /\ IsSome(Unwrap(chosen).value)

ReturnedNone == pc = "returned" /\ Unwrap(chosen).value = None

ChosenItem == Unwrap(Unwrap(chosen).value)

Derivable(it) == IsSome(it.key)

\* Eligible: the version derives and does not exceed the main version.
Eligible(it) == Derivable(it) /\ VersionLE(Unwrap(it.key), main_version)

Exceeds(it) ==
    Derivable(it) /\ VersionCmp(Unwrap(it.key), main_version) = "Greater"

\* C1 (maximality): when the call returns a candidate, no eligible candidate
\* of the input has a derived version greater than the returned one's.
C1_Maximality ==
    ReturnedSome =>
        /\ Derivable(ChosenItem)
        /\ \A i \in 1..Len(items) :
              Eligible(items[i]) =>
                  VersionCmp(Unwrap(items[i].key), Unwrap(ChosenItem.key))
                      # "Greater"

\* The greatest of two eligible versions was returned, past a candidate that
\* exceeds the main version.
C1_Witness ==
    /\ ReturnedSome
    /\ \E i, j, k \in 1..Len(items) :
          /\ Eligible(items[i])
          /\ items[j] = ChosenItem
          /\ i < j
          /\ VersionCmp(Unwrap(items[i].key), Unwrap(items[j].key)) = "Less"
          /\ Exceeds(items[k])

\* C2 (selection bound): a returned candidate has a derived version, and it
\* is at most the main version.
C2_SelectionBound ==
    ReturnedSome =>
        /\ Derivable(ChosenItem)
        /\ VersionLE(Unwrap(ChosenItem.key), main_version)

\* A candidate was returned although the first candidate exceeds the main
\* version.
C2_Witness ==
    /\ ReturnedSome
    /\ Exceeds(items[1])
    /\ ChosenItem # items[1]

\* C3 (emptiness correctness): on a non-empty input the call returns, and it
\* returns None exactly when no candidate is eligible.
C3_Emptiness ==
    (CallEnded /\ items # <<>>) =>
        /\ pc = "returned"
        /\ ReturnedNone <=> ~ \E i \in 1..Len(items) : Eligible(items[i])

\* None was returned for candidates of which one exceeds the main version and
\* one does not derive.
C3_Witness ==
    /\ ReturnedNone
    /\ \E i, j \in 1..Len(items) : Exceeds(items[i]) /\ ~Derivable(items[j])

\* C4 (tie-break stability), as claimed: of the eligible candidates sharing
\* the returned version, the one earliest in the input is returned.
C4_TieBreakStable ==
    ReturnedSome =>
        \A i \in 1..Len(items) :
            (/\ Eligible(items[i])
             /\ VersionCmp(Unwrap(items[i].key), Unwrap(ChosenItem.key)) = "Equal")
                => ChosenItem.id <= i

\* C5 (empty-input precondition): a call with no candidates panics and
\* returns nothing; a call with candidates of which none is eligible returns
\* None.
C5_EmptyInputPanics ==
    CallEnded =>
        /\ items = <<>> => (pc = "panicked" /\ chosen = Some(Panic))
        /\ (items # <<>> /\ \A i \in 1..Len(items) : ~Eligible(items[i]))
              => (pc = "returned" /\ chosen = Some(Return(None)))

C5_Witness == pc = "panicked" /\ items = <<>> /\ chosen = Some(Panic)

\* The candidates whose version derives, in input order.
DerivableItems == SelectSeq(items, Derivable)

\* C6 (derivation failure is absorbed): a candidate that does not derive is
\* never returned and never makes the call fail; the outcome is an outcome of
\* the call on the derivable candidates alone, both calls having the same
\* outcomes, and None when no candidate derives.
C6_DerivationAbsorbed ==
    (CallEnded /\ items # <<>>) =>
        /\ pc = "returned"
        /\ ReturnedSome => Derivable(ChosenItem)
        /\ IF DerivableItems = <<>>
           THEN ReturnedNone
           ELSE /\ Unwrap(chosen) \in choose_version_by_key(
                       main_version, DerivableItems, TestKeyFn(DerivableItems))
                /\ choose_version_by_key(main_version, items, TestKeyFn(items))
                     = choose_version_by_key(
                           main_version, DerivableItems, TestKeyFn(DerivableItems))

\* A candidate was returned that follows a candidate without a version.
C6_Witness ==
    /\ ReturnedSome
    /\ ~Derivable(items[1])
    /\ ChosenItem.id > 1

\* Some candidate derives and every derivable candidate exceeds the main
\* version.
NoVersionForMain ==
    /\ \E i \in 1..Len(items) : Derivable(items[i])
    /\ \A i \in 1..Len(items) : Derivable(items[i]) => Exceeds(items[i])

----------------------------------------------------------------------------
\* Properties of download_matching_release (Spec)

\* The adapter as claimed: the leading "v" is stripped and the rest parsed;
\* None when the tag does not start with "v" or the rest does not parse.
ClaimedTagKey(r) ==
    IF r.tag_name # <<>> /\ Head(r.tag_name) = "v"
    THEN Return(VersionParse(Tail(r.tag_name)))
    ELSE Return(None)

\* C8 (the release-tag adapter never fails), as claimed: once the selection
\* has run over the listed releases it has not panicked, and for every listed
\* tag the adapter returned the version parsed from the tag without its
\* leading "v", or None.
C8_AdapterNeverFails ==
    IsSome(chosen) =>
        /\ Unwrap(chosen).kind = "return"
        /\ \A i \in 1..Len(items) : TagKey(items[i]) = ClaimedTagKey(items[i])

\* The steps of the log that download, create a temporary directory or
\* unpack.
DownloadSteps == {i \in 1..Len(log) : log[i][1] \in {"download", "tempdir", "unpack"}}

\* C9 (no download without a match): when the selection returns None the
\* function ends with the error "Found no valid releases for wasm-rgame
\* version!" and nothing is downloaded, created or unpacked; every download
\* requests the tarball_url of the chosen release.
C9_NoDownloadWithoutMatch ==
    /\ (IsSome(chosen) /\ Unwrap(chosen) = Return(None)) =>
          /\ DownloadSteps = {}
          /\ pc \in {"check_chosen", "done"}
          /\ pc = "done" =>
                result = Some(Err("Found no valid releases for wasm-rgame version!"))
    /\ \A i \in 1..Len(log) :
          log[i][1] = "download" =>
              /\ IsSome(chosen)
              /\ Unwrap(chosen).kind = "return"
              /\ IsSome(Unwrap(chosen).value)
              /\ log[i][2] = ChosenRelease.tarball_url
              /\ ChosenRelease \in Range(items)
    /\ DownloadSteps # {} => IsSome(chosen)

\* The run ended with the error after the selection found no release at or
\* below the main version among releases whose tags all parse.
C9_Witness ==
    /\ pc = "done"
    /\ chosen = Some(Return(None))
    /\ result = Some(Err("Found no valid releases for wasm-rgame version!"))
    /\ log = <<>>
    /\ \A i \in 1..Len(items) : IsSome(TagKey(items[i]).value)

----------------------------------------------------------------------------
\* A direct call of choose_version_by_key on versions with pre-releases
\* (SpecSemver)

SemverVersions == [major : {0}, minor : 0..1, patch : 0..1, pre : 0..1]

SemverKeySeqs ==
    UNION {[1..n -> {None} \cup {Some(v) : v \in SemverVersions}] :
              n \in 0..MaxPermLen}

InitSemver ==
    /\ pc = "call"
    /\ main_version \in SemverVersions
    /\ items \in {ItemsOf(k) : k \in SemverKeySeqs}
    /\ chosen = None
    /\ log = <<>>
    /\ tmp_dirs = {}
    /\ result = None
    /\ NoBuild
    /\ NoLock

SpecSemver == InitSemver /\ [][NextChoose]_vars

\* The items in the order p of their indices.
Reordered(p) == [i \in 1..Len(items) |-> items[p[i]]]

\* C11 (input order carries no meaning): every call on a permutation of the
\* candidates returns None when this call returned None, and otherwise a
\* candidate with the derived version of the one this call returned.
C11_OrderIrrelevant ==
    (pc = "returned" /\ items # <<>>) =>
        \A p \in IndexOrders(Len(items)) :
            \A o \in choose_version_by_key(
                        main_version, Reordered(p), TestKeyFn(Reordered(p))) :
                /\ o.kind = "return"
                /\ (o.value = None) <=> ReturnedNone
                /\ IsSome(o.value) => Unwrap(o.value).key = ChosenItem.key

\* The last of three candidates was returned, the first two being eligible
\* with lower versions, different from each other.
C11_Witness ==
    /\ ReturnedSome
    /\ Len(items) = 3
    /\ ChosenItem = items[3]
    /\ Eligible(items[1])
    /\ Eligible(items[2])
    /\ VersionCmp(Unwrap(items[1].key), Unwrap(items[2].key)) = "Less"
    /\ VersionCmp(Unwrap(items[2].key), Unwrap(items[3].key)) = "Less"

\* The release of a version: the same major, minor and patch, no pre-release.
ReleaseOf(v) == MkVersion(v.major, v.minor, v.patch, 0)

IsPre(v) == v.pre # 0

\* C12 (semver precedence): with a release X.Y.Z as main version a candidate
\* X.Y.Z-pre is eligible, so a candidate is returned, and the candidate
\* X.Y.Z, when there is one, is returned before it; with a pre-release
\* X.Y.Z-pre as main version a candidate X.Y.Z is never returned.  A
\* returned version is at most the main version by major, then minor, then
\* patch.
C12_SemverPrecedence ==
    pc = "returned" =>
        /\ (/\ ~IsPre(main_version)
            /\ \E i \in 1..Len(items) :
                  /\ Derivable(items[i])
                  /\ IsPre(Unwrap(items[i].key))
                  /\ ReleaseOf(Unwrap(items[i].key)) = main_version)
              => /\ ReturnedSome
                 /\ (\E j \in 1..Len(items) : items[j].key = Some(main_version))
                       => ChosenItem.key = Some(main_version)
        /\ (IsPre(main_version) /\ ReturnedSome)
              => ChosenItem.key # Some(ReleaseOf(main_version))
        /\ ReturnedSome =>
              LET v == Unwrap(ChosenItem.key)
                  m == main_version
              IN  \/ v.major < m.major
                  \/ v.major = m.major /\ v.minor < m.minor
                  \/ v.major = m.major /\ v.minor = m.minor /\ v.patch <= m.patch

\* With a release as main version its pre-release comes first in the input
\* and the release itself, listed after it, was returned.
C12_Witness ==
    /\ ReturnedSome
    /\ ~IsPre(main_version)
    /\ Len(items) >= 2
    /\ Derivable(items[1])
    /\ IsPre(Unwrap(items[1].key))
    /\ ReleaseOf(Unwrap(items[1].key)) = main_version
    /\ ChosenItem = items[2]
    /\ items[2].key = Some(main_version)

----------------------------------------------------------------------------
\* C14 (the selector's assertion is unreachable from the build): the
\* selection is called on a non-empty release list only, so it never panics
\* by its assertion; an empty list ends the run with "Found no releases for
\* wasm-rgame-js!" and a list without a compatible release with "Found no
\* valid releases for wasm-rgame version!", two different errors.
C14_AssertionUnreachable ==
    /\ IsSome(chosen) => assert_nonempty(items)
    /\ chosen = Some(Panic) => KeyPanics(items, TagKeyFn(items))
    /\ (pc = "done" /\ items = <<>>) => (chosen = None /\ result # Some(Ok))
    /\ result = Some(Err("Found no releases for wasm-rgame-js!"))
          => (items = <<>> /\ chosen = None)
    /\ result = Some(Err("Found no valid releases for wasm-rgame version!"))
          => (items # <<>> /\ chosen = Some(Return(None)))
    /\ (pc = "done" /\ chosen = Some(Return(None)))
          => result = Some(Err("Found no valid releases for wasm-rgame version!"))

\* The run ended on an empty release list, the selection never called.
C14_Witness ==
    /\ pc = "done"
    /\ items = <<>>
    /\ chosen = None
    /\ result = Some(Err("Found no releases for wasm-rgame-js!"))

----------------------------------------------------------------------------
\* build_project and build_project_delegate (SpecBuild)

\* Only the variables of the build pipeline change in its steps.
BuildFrame == UNCHANGED <<main_version, items, chosen, js_path_arg, lock_vars>>

\* A mutation: the result of the command is ignored.
ExecuteCommandIgnored(command, next) ==
    /\ \E status \in {"ok", "fail"} :
          log' = Append(log, <<"exec", command, status>>)
    /\ pc' = next
    /\ UNCHANGED <<tmp_dirs, result>>

\* execute_command(command, ..)?: the command runs; the step after it is
\* reached only when it succeeded.
ExecuteCommand(command, next) ==
    \/ /\ log' = Append(log, <<"exec", command, "ok">>)
       /\ pc' = next
       /\ UNCHANGED <<tmp_dirs, result>>
    \/ /\ log' = Append(log, <<"exec", command, "fail">>)
       /\ Finish(Err("Command failed"))

\* The run of a build: the --js-path argument, the directories on disk, and
\* for a download the version in Cargo.lock and the listed releases.
InitBuild ==
    /\ pc = "project_name"
    /\ chosen = None
    /\ log = <<>>
    /\ tmp_dirs = {}
    /\ result = None
    /\ js = None
    /\ NoLock
    /\ \/ /\ js_path_arg = None
          /\ main_version \in Versions
          /\ items \in ReleaseLists
          /\ disk \in SUBSET {"target_dir"}
       \/ /\ js_path_arg = Some("user_js_path")
          /\ main_version = MkVersion(0, 0, 0, 0)
          /\ items = <<>>
          /\ disk \in SUBSET {"user_js_path", "target_dir"}

\* let project_name = project_name()?
ProjectName ==
    /\ pc = "project_name"
    /\ \/ pc' = "rustup_target" /\ UNCHANGED <<tmp_dirs, result>>
       \/ Finish(Err("Cannot find Cargo.toml in project directory"))
    /\ UNCHANGED <<log, disk, js>>
    /\ BuildFrame

RustupTargetInstall ==
    /\ pc = "rustup_target"
    /\ ExecuteCommand("rustup target install", "rustup_toolchain")
    /\ UNCHANGED <<disk, js>>
    /\ BuildFrame

RustupToolchainInstall ==
    /\ pc = "rustup_toolchain"
    /\ ExecuteCommand("rustup toolchain install", "rustup_override")
    /\ UNCHANGED <<disk, js>>
    /\ BuildFrame

RustupOverrideSet ==
    /\ pc = "rustup_override"
    /\ ExecuteCommand("rustup override set", "cargo_build")
    /\ UNCHANGED <<disk, js>>
    /\ BuildFrame

\* cargo build, then js_path_delegate(): build_project gives
\* check_and_use_js_path for a --js-path and download_matching_release
\* otherwise.
CargoBuild ==
    /\ pc = "cargo_build"
    /\ ExecuteCommand("cargo build",
                   IF js_path_arg = None THEN "wasm_rgame_version"
                                         ELSE "check_js_path")
    /\ UNCHANGED <<disk, js>>
    /\ BuildFrame

\* A mutation: the --js-path directory is returned with ShouldCleanup(true).
UserJsPathCleanedUp(path) == <<path, TRUE>>

\* Ok((js_path, ShouldCleanup(false)))
UserJsPath(path) == <<path, FALSE>>

\* Ok((final_tmp_path, ShouldCleanup(true)))
DownloadedJsPath == <<"final_tmp_path", TRUE>>

\* check_and_use_js_path(js_path)?
CheckAndUseJsPath ==
    /\ pc = "check_js_path"
    /\ LET path == Unwrap(js_path_arg)
       IN  IF path \notin disk
           THEN /\ log' = Append(log, <<"js_path", path, "fail">>)
                /\ Finish(Err("Path entered does not exist!"))
                /\ UNCHANGED js
           ELSE /\ log' = Append(log, <<"js_path", path, "ok">>)
                /\ js' = Some(UserJsPath(path))
                /\ pc' = "remove_target"
                /\ UNCHANGED <<tmp_dirs, result>>
    /\ UNCHANGED disk
    /\ BuildFrame

\* download_matching_release returned Ok to build_project_delegate; its Err
\* or panic ends the build.
DownloadReturned ==
    /\ pc = "done"
    /\ js_path_arg = None
    /\ js = None
    /\ result = Some(Ok)
    /\ log' = Append(log, <<"js_path", DownloadedJsPath[1], "ok">>)
    /\ js' = Some(DownloadedJsPath)
    /\ result' = None
    /\ pc' = "remove_target"
    /\ UNCHANGED <<tmp_dirs, disk>>
    /\ BuildFrame

\* if target_dir_path.exists() { fs::remove_dir_all(target_dir_path)? }
RemoveTargetDir ==
    /\ pc = "remove_target"
    /\ IF "target_dir" \in disk
       THEN \/ /\ log' = Append(log, <<"remove_target", "target_dir", "ok">>)
               /\ disk' = disk \ {"target_dir"}
               /\ pc' = "create_target"
               /\ UNCHANGED <<tmp_dirs, result>>
            \/ /\ log' = Append(log, <<"remove_target", "target_dir", "fail">>)
               /\ Finish(Err("Failed removing existing wasm-rgame target directory"))
               /\ UNCHANGED disk
       ELSE /\ pc' = "create_target"
            /\ UNCHANGED <<log, disk, tmp_dirs, result>>
    /\ UNCHANGED js
    /\ BuildFrame

\* fs::create_dir_all(target_dir_path)?
CreateTargetDir ==
    /\ pc = "create_target"
    /\ \/ /\ log' = Append(log, <<"create_target", "target_dir", "ok">>)
          /\ disk' = disk \cup {"target_dir"}
          /\ pc' = "copy_js"
          /\ UNCHANGED <<tmp_dirs, result>>
       \/ /\ log' = Append(log, <<"create_target", "target_dir", "fail">>)
          /\ Finish(Err("Failed creating wasm-rgame target directory"))
          /\ UNCHANGED disk
    /\ UNCHANGED js
    /\ BuildFrame

\* for_each_file_in_dir(&js_path, ..)?: copy into the target directory.
CopyJsFiles ==
    /\ pc = "copy_js"
    /\ \/ /\ log' = Append(log, <<"copy_js", Unwrap(js)[1], "ok">>)
          /\ pc' = "cleanup"
          /\ UNCHANGED <<tmp_dirs, result>>
       \/ /\ log' = Append(log, <<"copy_js", Unwrap(js)[1], "fail">>)
          /\ Finish(Err("Failed to copy over unpacked data"))
    /\ UNCHANGED <<disk, js>>
    /\ BuildFrame

\* if should_cleanup.0 { fs::remove_dir_all(js_path)?; }
CleanupJsPath ==
    /\ pc = "cleanup"
    /\ LET path == Unwrap(js)[1]
           should_cleanup == Unwrap(js)[2]
       IN  IF should_cleanup
           THEN \/ /\ log' = Append(log, <<"cleanup", path, "ok">>)
                   /\ tmp_dirs' = tmp_dirs \ {path}
                   /\ disk' = disk \ {path}
                   /\ pc' = "wasm_bindgen"
                   /\ UNCHANGED result
                \/ /\ log' = Append(log, <<"cleanup", path, "fail">>)
                   /\ Finish(Err("io error"))
                   /\ UNCHANGED disk
           ELSE /\ pc' = "wasm_bindgen"
                /\ UNCHANGED <<log, tmp_dirs, disk, result>>
    /\ UNCHANGED js
    /\ BuildFrame

\* execute_command("wasm-bindgen", ..)?; Ok(())
WasmBindgen ==
    /\ pc = "wasm_bindgen"
    /\ \/ /\ log' = Append(log, <<"exec", "wasm-bindgen", "ok">>)
          /\ Finish(Ok)
       \/ /\ log' = Append(log, <<"exec", "wasm-bindgen", "fail">>)
          /\ Finish(Err("Command failed"))
    /\ UNCHANGED <<disk, js>>
    /\ BuildFrame

NextBuild ==
    \/ ProjectName
    \/ RustupTargetInstall
    \/ RustupToolchainInstall
    \/ RustupOverrideSet
    \/ CargoBuild
    \/ CheckAndUseJsPath
    \/ Next
    \/ DownloadReturned
    \/ RemoveTargetDir
    \/ CreateTargetDir
    \/ CopyJsFiles
    \/ CleanupJsPath
    \/ WasmBindgen

SpecBuild == InitBuild /\ [][NextBuild]_vars

----------------------------------------------------------------------------
\* Properties of build_project_delegate (SpecBuild)

\* The steps of build_project_delegate, in the order of its code.
BuildOrder ==
    <<"rustup target install", "rustup toolchain install",
      "rustup override set", "cargo build", "js_path", "remove_target",
      "create_target", "copy_js", "cleanup", "wasm-bindgen">>

\* Steps the code runs on a condition: the removal of an existing target
\* directory and the cleanup of a downloaded js path.
OptionalSteps == {"remove_target", "cleanup"}

\* The entries of the log written by build_project_delegate.
BuildEntries == {i \in 1..Len(log) : Len(log[i]) = 3}

StepOf(e) == IF e[1] = "exec" THEN e[2] ELSE e[1]

Rank(step) == CHOOSE k \in 1..Len(BuildOrder) : BuildOrder[k] = step

RanOk(step, before) ==
    \E j \in BuildEntries :
        j < before /\ StepOf(log[j]) = step /\ log[j][3] = "ok"

BuildFailed == IsSome(result) /\ Unwrap(result).kind # "ok"

\* The steps ran in the order of BuildOrder, each after every step before it
\* that is not optional succeeded; a failed step is the last of the log and
\* ends the build with an error; the download runs between cargo build and
\* the js path.
BuildOrderKept ==
    /\ \A i \in BuildEntries :
          /\ \A j \in BuildEntries :
                j < i => /\ Rank(StepOf(log[j])) < Rank(StepOf(log[i]))
                         /\ log[j][3] = "ok"
          /\ \A k \in 1..(Rank(StepOf(log[i])) - 1) :
                BuildOrder[k] \notin OptionalSteps => RanOk(BuildOrder[k], i)
          /\ log[i][3] = "fail" =>
                (i = Len(log) /\ pc = "done" /\ BuildFailed)
    /\ \A i \in (1..Len(log)) \ BuildEntries :
          /\ RanOk("cargo build", i)
          /\ \A j \in BuildEntries : j < i => Rank(StepOf(log[j])) <= 4
    /\ BuildFailed => pc = "done"

\* C13 (pipeline order and abort on failure): the steps of
\* build_project_delegate run in their fixed order, a failure of a step
\* returns an error and no step runs after it; so the target directory is
\* removed only after cargo build and the js path succeeded, and
\* wasm-bindgen runs only after the copy succeeded.
C13_OrderAndAbort == []BuildOrderKept /\ [][~BuildFailed]_vars

\* A build ended Ok: it downloaded a release, removed the existing target
\* directory, and ran wasm-bindgen last.
C13_Witness ==
    /\ pc = "done"
    /\ result = Some(Ok)
    /\ js = Some(DownloadedJsPath)
    /\ \E i \in BuildEntries : log[i] = <<"remove_target", "target_dir", "ok">>
    /\ log[Len(log)] = <<"exec", "wasm-bindgen", "ok">>

\* The directory the download returned is handled as the code says: its
\* removal is carried out right after a successful copy and only then, it
\* is on disk until that removal succeeded, it is gone when wasm-bindgen
\* runs, and after a failed copy it is still there.  No removal is ever
\* carried out on a --js-path directory.
CleanupOwnership ==
    /\ \A i \in BuildEntries :
          /\ StepOf(log[i]) = "cleanup" =>
                /\ log[i][2] = "final_tmp_path"
                /\ i > 1
                /\ log[i - 1] = <<"copy_js", "final_tmp_path", "ok">>
          /\ (log[i] = <<"copy_js", "final_tmp_path", "ok">> /\ pc # "cleanup")
                => (i < Len(log) /\ StepOf(log[i + 1]) = "cleanup")
          /\ log[i] = <<"copy_js", "final_tmp_path", "fail">>
                => "final_tmp_path" \in tmp_dirs
          /\ StepOf(log[i]) = "wasm-bindgen" => "final_tmp_path" \notin tmp_dirs
    /\ js = Some(DownloadedJsPath) =>
          ("final_tmp_path" \notin tmp_dirs
              <=> \E i \in BuildEntries :
                     log[i] = <<"cleanup", "final_tmp_path", "ok">>)
    /\ (IsSome(js) /\ Unwrap(js)[1] = "user_js_path") => "user_js_path" \in disk

----------------------------------------------------------------------------
\* cargo-lock: find_version, and wasm_rgame_version that calls it

MaxLines == 4

\* The text of a Cargo.lock is a sequence of tokens: the two literals of
\* VERSION_MATCH, the quote, the newline, the space, and other characters.
LitName == "name = "
LitVersion == "version = "
Quote == "\""
Newline == "\n"
Space == " "

IsWhitespace(c) == c \in {Newline, Space}

\* The first position from i on where a quote stands, or Len(t) + 1.
RECURSIVE NextQuote(_, _)
NextQuote(t, i) ==
    IF i > Len(t) \/ t[i] = Quote THEN i ELSE NextQuote(t, i + 1)

\* \s* : the first position from i on that is not whitespace.
RECURSIVE SkipWhitespace(_, _)
SkipWhitespace(t, i) ==
    IF i <= Len(t) /\ IsWhitespace(t[i]) THEN SkipWhitespace(t, i + 1) ELSE i

\* "([^"]+)" at i: the quote, one or more characters that are not a quote,
\* the quote.  Gives the capture and the position after it, or None.
QuotedAt(t, i) ==
    IF i <= Len(t) /\ t[i] = Quote
    THEN LET q == NextQuote(t, i + 1)
         IN  IF q <= Len(t) /\ q > i + 1
             THEN Some([capture |-> SubSeq(t, i + 1, q - 1), next |-> q + 1])
             ELSE None
    ELSE None

\* VERSION_MATCH at i: name = "([^"]+)"\n\s*version = "([^"]+)"
MatchAt(t, i) ==
    IF i <= Len(t) /\ t[i] = LitName
    THEN LET n == QuotedAt(t, i + 1)
         IN  IF IsSome(n) /\ Unwrap(n).next <= Len(t)
                          /\ t[Unwrap(n).next] = Newline
             THEN LET v == SkipWhitespace(t, Unwrap(n).next + 1)
                  IN  IF v <= Len(t) /\ t[v] = LitVersion
                      THEN LET w == QuotedAt(t, v + 1)
                           IN  IF IsSome(w)
                               THEN Some([name |-> Unwrap(n).capture,
                                          version |-> Unwrap(w).capture,
                                          next |-> Unwrap(w).next])
                               ELSE None
                      ELSE None
             ELSE None
    ELSE None

\* VERSION_MATCH.captures_iter(cargo_lock): the matches from the left, none
\* overlapping another.
RECURSIVE CapturesFrom(_, _)
CapturesFrom(t, i) ==
    IF i > Len(t) THEN <<>>
    ELSE LET m == MatchAt(t, i)
         IN  IF IsSome(m)
             THEN <<Unwrap(m)>> \o CapturesFrom(t, Unwrap(m).next)
             ELSE CapturesFrom(t, i + 1)

captures_iter(t) == CapturesFrom(t, 1)

\* A mutation: an entry whose version does not parse is passed over.
RECURSIVE FindRetrying(_, _)
FindRetrying(package_name, captures) ==
    IF captures = <<>> THEN None
    ELSE IF package_name # Head(captures).name
              \/ ~IsSome(VersionParse(Head(captures).version))
         THEN FindRetrying(package_name, Tail(captures))
         ELSE VersionParse(Head(captures).version)

find_version_retrying(package_name, cargo_lock) ==
    FindRetrying(package_name, captures_iter(cargo_lock))

\* The loop of find_version over the captures.
RECURSIVE FindIn(_, _)
FindIn(package_name, captures) ==
    IF captures = <<>> THEN None
    ELSE IF package_name # Head(captures).name
         THEN FindIn(package_name, Tail(captures))
         ELSE LET version == VersionParse(Head(captures).version)
              IN  IF IsSome(version) THEN Some(Unwrap(version)) ELSE None

find_version(package_name, cargo_lock) ==
    FindIn(package_name, captures_iter(cargo_lock))

\* The package wasm_rgame_version looks for, and names of other packages.
PackageName == <<"w", "r">>
OtherNames == {<<"w", "r", "g">>, <<"o">>}

VersionStrings ==
    {<<"1", ".", "0", ".", "0">>, <<"0", ".", "1", ".", "0">>, <<"x">>}

NameLine(n) == <<LitName, Quote>> \o n \o <<Quote, Newline>>
VersionLine(v) == <<LitVersion, Quote>> \o v \o <<Quote, Newline>>

\* The lines of the Cargo.lock files of the model: name lines, version lines
\* (one indented), the empty line, and a line with another key.
Lines ==
    {NameLine(n) : n \in {PackageName} \cup OtherNames}
        \cup {VersionLine(v) : v \in VersionStrings}
        \cup {<<Space>> \o VersionLine(<<"1", ".", "0", ".", "0">>)}
        \cup {<<Newline>>}
        \cup {<<"s", " ", "=", " ", Quote, "r", Quote, Newline>>}

LockFiles == UNION {[1..n -> Lines] : n \in 0..MaxLines}

\* The text of the file: its lines one after another.
RECURSIVE Concat(_)
Concat(ls) == IF ls = <<>> THEN <<>> ELSE Head(ls) \o Concat(Tail(ls))

ReadError == Err("Cannot find / read Cargo.lock in project directory")

InitLock ==
    /\ pc = "read_cargo_lock"
    /\ cargo_lock_contents \in LockFiles
    /\ lock_version = None
    /\ main_version = MkVersion(0, 0, 0, 0)
    /\ items = <<>>
    /\ chosen = None
    /\ log = <<>>
    /\ tmp_dirs = {}
    /\ result = None
    /\ NoBuild

\* fs::read_to_string("Cargo.lock")?
ReadCargoLock ==
    /\ pc = "read_cargo_lock"
    /\ \/ pc' = "find_version" /\ UNCHANGED <<tmp_dirs, result>>
       \/ Finish(ReadError)
    /\ UNCHANGED <<main_version, items, chosen, log, build_vars, lock_vars>>

\* cargo_lock::find_version("wasm-rgame", &cargo_lock_contents): Ok(version)
\* or the error that the package is not in the file.
FindVersion ==
    /\ pc = "find_version"
    /\ lock_version' = find_version(PackageName, Concat(cargo_lock_contents))
    /\ IF IsSome(lock_version')
       THEN main_version' = Unwrap(lock_version') /\ Finish(Ok)
       ELSE /\ Finish(Err("Cannot find wasm-rgame package in the Cargo.lock file!"))
            /\ UNCHANGED main_version
    /\ UNCHANGED <<items, chosen, log, build_vars, cargo_lock_contents>>

NextLock == ReadCargoLock \/ FindVersion

SpecLock == InitLock /\ [][NextLock]_vars

----------------------------------------------------------------------------
\* Properties of find_version (SpecLock)

IsNameLine(l) == l[1] = LitName
IsBlankLine(l) == \A i \in 1..Len(l) : IsWhitespace(l[i])
IsVersionLine(l) ==
    \E i \in 1..Len(l) :
        l[i] = LitVersion /\ \A j \in 1..(i - 1) : IsWhitespace(l[j])

\* The text between the first two quotes of a line.
Quoted(l) == Split(l, Quote)[2]

\* The line after line i that is not blank, or 0.
NextNonBlank(ls, i) ==
    IF \E j \in (i + 1)..Len(ls) : ~IsBlankLine(ls[j])
    THEN CHOOSE j \in (i + 1)..Len(ls) :
            ~IsBlankLine(ls[j]) /\ \A k \in (i + 1)..(j - 1) : IsBlankLine(ls[k])
    ELSE 0

\* The name/version entries of a file, in file order: a name line whose
\* next line that is not blank is a version line.
RECURSIVE EntriesFrom(_, _)
EntriesFrom(ls, i) ==
    IF i > Len(ls) THEN <<>>
    ELSE LET j == NextNonBlank(ls, i)
         IN  IF IsNameLine(ls[i]) /\ j > 0 /\ IsVersionLine(ls[j])
             THEN <<[name |-> Quoted(ls[i]), version |-> Quoted(ls[j])]>>
                      \o EntriesFrom(ls, i + 1)
             ELSE EntriesFrom(ls, i + 1)

IsNamed(e) == e.name = PackageName

EntriesNamed(ls) == SelectSeq(EntriesFrom(ls, 1), IsNamed)

FindVersionReturned == pc = "done" /\ result # Some(ReadError)

\* C16 (find_version): the result is None when no name/version entry of the
\* file has exactly the package's name; otherwise it is decided by the first
\* such entry alone: Some(version) when its version string parses, None
\* when it does not, whatever entries follow and whatever entries with
\* other names the file holds.
C16_FirstNamedEntry ==
    FindVersionReturned =>
        LET named == EntriesNamed(cargo_lock_contents)
        IN  IF named = <<>>
            THEN lock_version = None
            ELSE lock_version = VersionParse(named[1].version)

\* The first entry of the package does not parse, a later one does, and
\* find_version returned None.
C16_Witness ==
    /\ FindVersionReturned
    /\ lock_version = None
    /\ LET named == EntriesNamed(cargo_lock_contents)
       IN  /\ Len(named) >= 2
           /\ ~IsSome(VersionParse(named[1].version))
           /\ IsSome(VersionParse(named[2].version))

====
